---- MODULE Spec2Model ----
(***************************************************************************)
(* A model of the NIFITS object model and container of                     *)
(* src/nifits/io/oifits.py: the payload codecs (table, array, complex      *)
(* array), the extension classes, and the load/save orchestration of the   *)
(* nifits container (from_nifits, to_nifits).                              *)
(***************************************************************************)
EXTENDS Integers, Sequences, FiniteSets, TLC

\* Bounds of the model.
MaxVal == 1      \* finite array values of the codec specification range over 0..MaxVal
MaxLen == 2      \* complex arrays of the codec specification have at most MaxLen elements
NVariants == 2   \* payload variants of the container specification (variant v has v rows/elements)

(***************************************************************************)
(* Values.  An array element is a floating point value: a finite number,   *)
(* an infinity or a NaN.  Arithmetic follows IEEE 754 on these classes.    *)
(***************************************************************************)
Fin(n) == [c |-> "fin", n |-> n]
PInf == [c |-> "inf", n |-> 1]
NInf == [c |-> "inf", n |-> -1]
NaN == [c |-> "nan", n |-> 0]
FVals == {Fin(n) : n \in 0..MaxVal} \cup {PInf, NInf, NaN}

Sign(n) == IF n > 0 THEN 1 ELSE IF n < 0 THEN -1 ELSE 0

FNeg(a) == IF a.c = "nan" THEN NaN ELSE [c |-> a.c, n |-> -a.n]

FMul(a, b) ==
    IF a.c = "nan" \/ b.c = "nan" THEN NaN
    ELSE IF a.c = "fin" /\ b.c = "fin" THEN Fin(a.n * b.n)
    ELSE IF a.n = 0 \/ b.n = 0 THEN NaN
    ELSE [c |-> "inf", n |-> Sign(a.n) * Sign(b.n)]

FAdd(a, b) ==
    IF a.c = "nan" \/ b.c = "nan" THEN NaN
    ELSE IF a.c = "fin" /\ b.c = "fin" THEN Fin(a.n + b.n)
    ELSE IF a.c = "inf" /\ b.c = "inf" THEN (IF a.n = b.n THEN a ELSE NaN)
    ELSE IF a.c = "inf" THEN a ELSE b

FSub(a, b) == FAdd(a, FNeg(b))

\* Complex values and the numpy arithmetic used by the complex codec.
Cpx(re, im) == [re |-> re, im |-> im]
CVals == {Cpx(re, im) : re \in FVals, im \in FVals}
ImagUnit == Cpx(Fin(0), Fin(1))
CMul(x, y) == Cpx(FSub(FMul(x.re, y.re), FMul(x.im, y.im)),
                  FAdd(FMul(x.re, y.im), FMul(x.im, y.re)))
CAdd(x, y) == Cpx(FAdd(x.re, y.re), FAdd(x.im, y.im))
AsComplex(a) == Cpx(a, Fin(0))

(***************************************************************************)
(* Headers, records (HDUs) and extension objects.                          *)
(***************************************************************************)
NIFITS_EXTENSIONS ==
    << "OI_ARRAY", "OI_WAVELENGTH", "NI_CATM", "NI_FOV", "NI_KMAT",
       "NI_MOD", "NI_IOUT", "NI_KIOUT", "NI_KCOV" >>

STATIC_EXTENSIONS ==
    << TRUE, TRUE, TRUE, TRUE, FALSE, FALSE, FALSE, FALSE, FALSE >>

\* The names of the extension classes of the module (one per kind of the interface).
ClassNames ==
    { "OI_ARRAY", "OI_WAVELENGTH", "OI_TARGET", "NI_CATM", "NI_FOV", "NI_KMAT",
      "NI_MOD", "NI_IOUT", "NI_KIOUT", "NI_KCOV" }

\* str.lower on the class names.
lower(s) ==
    CASE s = "OI_ARRAY" -> "oi_array"
      [] s = "OI_WAVELENGTH" -> "oi_wavelength"
      [] s = "OI_TARGET" -> "oi_target"
      [] s = "NI_CATM" -> "ni_catm"
      [] s = "NI_FOV" -> "ni_fov"
      [] s = "NI_KMAT" -> "ni_kmat"
      [] s = "NI_MOD" -> "ni_mod"
      [] s = "NI_IOUT" -> "ni_iout"
      [] s = "NI_KIOUT" -> "ni_kiout"
      [] s = "NI_KCOV" -> "ni_kcov"

\* The extension fields declared by the nifits dataclass.
nifits_fields ==
    { "ni_catm", "ni_fov", "ni_kmat", "oi_wavelength", "oi_target",
      "ni_mod", "ni_iout", "ni_kiout", "ni_kcov" }

\* A header: the shape-dependent keywords, a free-form card, and (on a
\* primary header) the manifest flags written by to_nifits, keyword by keyword.
NoFlags == [k \in {} |-> ""]
Header(shape, card, flags) == [shape |-> shape, card |-> card, flags |-> flags]
EmptyHeader == Header(<<>>, "", NoFlags)

\* The classes, as the module namespace holds them after import: base is the
\* payload codec, hasname tells whether the class carries a name attribute.
OI_ARRAY == [base |-> "NI_EXTENSION", hasname |-> TRUE, name |-> "OI_ARRAY"]
OI_WAVELENGTH == [base |-> "NI_EXTENSION", hasname |-> TRUE, name |-> "OI_WAVELENGTH"]
OI_TARGET == [base |-> "NI_EXTENSION", hasname |-> TRUE, name |-> "OI_TARGET"]
NI_CATM == [base |-> "NI_EXTENSION_CPX_ARRAY", hasname |-> TRUE, name |-> "NI_CATM"]
NI_IOUT == [base |-> "NI_EXTENSION", hasname |-> TRUE, name |-> "NI_IOUT"]
NI_KIOUT == [base |-> "NI_EXTENSION", hasname |-> TRUE, name |-> "NI_KIOUT"]
NI_KMAT == [base |-> "NI_EXTENSION_ARRAY", hasname |-> TRUE, name |-> "NI_KMAT"]
NI_MOD == [base |-> "NI_EXTENSION", hasname |-> TRUE, name |-> "NI_MOD"]
NI_FOV == [base |-> "NI_EXTENSION", hasname |-> TRUE, name |-> "NI_FOV"]
\* The second definition of NI_KCOV replaces the first one and sets no name.
NI_KCOV == [base |-> "NI_EXTENSION_ARRAY", hasname |-> FALSE, name |-> ""]

getclass(classname) ==
    CASE classname = "OI_ARRAY" -> OI_ARRAY
      [] classname = "OI_WAVELENGTH" -> OI_WAVELENGTH
      [] classname = "OI_TARGET" -> OI_TARGET
      [] classname = "NI_CATM" -> NI_CATM
      [] classname = "NI_FOV" -> NI_FOV
      [] classname = "NI_KMAT" -> NI_KMAT
      [] classname = "NI_MOD" -> NI_MOD
      [] classname = "NI_IOUT" -> NI_IOUT
      [] classname = "NI_KIOUT" -> NI_KIOUT
      [] classname = "NI_KCOV" -> NI_KCOV

\* An extension object: its class, its payload and its stored header.
\* None is Python's None.
ExtObject(cls, data, header) == [cls |-> cls, data |-> data, header |-> header]
None == [cls |-> "None"]
IsNone(o) == o.cls = "None"

\* A record (HDU): name, payload and header.  NoHdu stands for no record.
Hdu(name, data, header) == [name |-> name, data |-> data, header |-> header]
NoHdu == [name |-> ""]

(***************************************************************************)
(* Payload codecs.  Every codec operation returns [raised, obj, hdu]:      *)
(* raised is the exception it ends with ("none" on a normal return).       *)
(***************************************************************************)
Result(raised, obj, hdu) == [raised |-> raised, obj |-> obj, hdu |-> hdu]

\* Table(hdu.data), and the table a BinTableHDU holds: a copy, row by row.
TableCopy(rows) == [i \in 1..Len(rows) |-> rows[i]]

\* NI_EXTENSION.from_hdu
NI_EXTENSION_from_hdu(cls, hdu) ==
    Result("none", ExtObject(cls, TableCopy(hdu.data), hdu.header), hdu)

\* A to_hdu that hands its table over to the record and keeps none.
NI_EXTENSION_to_hdu_consuming(self) ==
    IF ~getclass(self.cls).hasname
    THEN Result("AttributeError", self, NoHdu)
    ELSE LET data == TableCopy(self.data)
             header == Header(<<Len(data)>>, self.header.card, self.header.flags)
         IN  Result("none", [self EXCEPT !.header = header, !.data = <<>>],
                    Hdu(getclass(self.cls).name, data, header))

\* NI_EXTENSION.to_hdu: the record takes the object's header with the shape
\* keywords set from the table, and the object keeps the record's header.
NI_EXTENSION_to_hdu(self) ==
    IF ~getclass(self.cls).hasname
    THEN Result("AttributeError", self, NoHdu)
    ELSE LET data == TableCopy(self.data)
             header == Header(<<Len(data)>>, self.header.card, self.header.flags)
         IN  Result("none", [self EXCEPT !.header = header],
                    Hdu(getclass(self.cls).name, data, header))

\* NI_EXTENSION_ARRAY.from_hdu
NI_EXTENSION_ARRAY_from_hdu(cls, hdu) ==
    Result("none", ExtObject(cls, hdu.data, hdu.header), hdu)

\* A to_hdu that gives the record the header of the object as it stands.
NI_EXTENSION_ARRAY_to_hdu_stale(self) ==
    IF ~getclass(self.cls).hasname
    THEN Result("AttributeError", self, NoHdu)
    ELSE Result("none", self, Hdu(getclass(self.cls).name, self.data, self.header))

\* NI_EXTENSION_ARRAY.to_hdu
NI_EXTENSION_ARRAY_to_hdu(self) ==
    IF ~getclass(self.cls).hasname
    THEN Result("AttributeError", self, NoHdu)
    ELSE LET header == Header(<<Len(self.data)>>, self.header.card, self.header.flags)
         IN  Result("none", [self EXCEPT !.header = header],
                    Hdu(getclass(self.cls).name, self.data, header))

\* A from_hdu without the assertion on the leading dimension.
NI_EXTENSION_CPX_ARRAY_from_hdu_unchecked(cls, hdu) ==
    LET data_array ==
            [i \in 1..Len(hdu.data[1]) |->
                CAdd(AsComplex(hdu.data[1][i]),
                     CMul(ImagUnit, AsComplex(hdu.data[2][i])))]
    IN  Result("none", ExtObject(cls, data_array, hdu.header), hdu)

\* NI_EXTENSION_CPX_ARRAY.from_hdu: hdu.data[0] + 1j*hdu.data[1], element by
\* element, after the assertion on the leading dimension.
NI_EXTENSION_CPX_ARRAY_from_hdu(cls, hdu) ==
    IF Len(hdu.data) # 2
    THEN Result("AssertionError", None, hdu)
    ELSE LET data_array ==
                 [i \in 1..Len(hdu.data[1]) |->
                     CAdd(AsComplex(hdu.data[1][i]),
                          CMul(ImagUnit, AsComplex(hdu.data[2][i])))]
         IN  Result("none", ExtObject(cls, data_array, hdu.header), hdu)

\* A to_hdu that stacks the planes the other way round: [imag, real].
NI_EXTENSION_CPX_ARRAY_to_hdu_swapped(self) ==
    LET real_valued_data ==
            << [i \in 1..Len(self.data) |-> self.data[i].im],
               [i \in 1..Len(self.data) |-> self.data[i].re] >>
    IN  IF ~getclass(self.cls).hasname
        THEN Result("AttributeError", self, NoHdu)
        ELSE LET header == Header(<<2, Len(self.data)>>, self.header.card,
                                  self.header.flags)
             IN  Result("none", [self EXCEPT !.header = header],
                        Hdu(getclass(self.cls).name, real_valued_data, header))

\* NI_EXTENSION_CPX_ARRAY.to_hdu: np.array([data_array.real, data_array.imag]).
NI_EXTENSION_CPX_ARRAY_to_hdu(self) ==
    LET real_valued_data ==
            << [i \in 1..Len(self.data) |-> self.data[i].re],
               [i \in 1..Len(self.data) |-> self.data[i].im] >>
    IN  IF ~getclass(self.cls).hasname
        THEN Result("AttributeError", self, NoHdu)
        ELSE LET header == Header(<<2, Len(self.data)>>, self.header.card,
                                  self.header.flags)
             IN  Result("none", [self EXCEPT !.header = header],
                        Hdu(getclass(self.cls).name, real_valued_data, header))

\* theclass.from_hdu(hdu): the method the class inherits from its base.
from_hdu(cls, hdu) ==
    CASE getclass(cls).base = "NI_EXTENSION" -> NI_EXTENSION_from_hdu(cls, hdu)
      [] getclass(cls).base = "NI_EXTENSION_ARRAY" -> NI_EXTENSION_ARRAY_from_hdu(cls, hdu)
      [] getclass(cls).base = "NI_EXTENSION_CPX_ARRAY" -> NI_EXTENSION_CPX_ARRAY_from_hdu(cls, hdu)

\* theobj.to_hdu(): None has no such method.
to_hdu(theobj) ==
    IF IsNone(theobj) THEN Result("AttributeError", theobj, NoHdu)
    ELSE CASE getclass(theobj.cls).base = "NI_EXTENSION" -> NI_EXTENSION_to_hdu(theobj)
           [] getclass(theobj.cls).base = "NI_EXTENSION_ARRAY" -> NI_EXTENSION_ARRAY_to_hdu(theobj)
           [] getclass(theobj.cls).base = "NI_EXTENSION_CPX_ARRAY" -> NI_EXTENSION_CPX_ARRAY_to_hdu(theobj)

(***************************************************************************)
(* The nifits container: its root header and its attributes.  A declared   *)
(* field that is not populated holds None; an attribute that was never     *)
(* set is not in the domain of attrs.                                      *)
(***************************************************************************)
Container(header, attrs) == [header |-> header, attrs |-> attrs]
NoContainer == Container(EmptyHeader, [a \in {} |-> None])
IsContainer(c) == DOMAIN c.attrs # {}

hasattr(self, a) == a \in DOMAIN self.attrs

\* The dataclass constructor nifits(header=..., **obj_dict): a keyword that
\* is not a declared field is a TypeError.
nifits(header, obj_dict) ==
    IF ~(DOMAIN obj_dict \subseteq nifits_fields)
    THEN [raised |-> "TypeError", obj |-> NoContainer]
    ELSE [raised |-> "none",
          obj |-> Container(header,
                     [a \in nifits_fields |->
                         IF a \in DOMAIN obj_dict THEN obj_dict[a] ELSE None])]

\* hdulist.__contains__(name) and hdulist[name]
Contains(hdulist, name) == \E i \in 1..Len(hdulist) : hdulist[i].name = name
IndexOf(hdulist, name) ==
    CHOOSE i \in 1..Len(hdulist) :
        /\ hdulist[i].name = name
        /\ \A j \in 1..(i - 1) : hdulist[j].name # name

\* The loop of from_nifits over NIFITS_EXTENSIONS, from position i on.
RECURSIVE from_nifits_loop(_, _, _)
from_nifits_loop(hdulist, st, i) ==
    IF i > Len(NIFITS_EXTENSIONS) THEN st
    ELSE LET anext == NIFITS_EXTENSIONS[i] IN
         IF Contains(hdulist, anext)
         THEN LET r == from_hdu(anext, hdulist[IndexOf(hdulist, anext)]) IN
              IF r.raised # "none"
              THEN [st EXCEPT !.raised = r.raised]
              ELSE from_nifits_loop(hdulist,
                       [st EXCEPT !.obj_dict = (lower(anext) :> r.obj) @@ @],
                       i + 1)
         ELSE from_nifits_loop(hdulist,
                  [st EXCEPT !.notices = Append(@, anext)], i + 1)

\* nifits.from_nifits on an opened record list: [raised, obj, notices].
from_nifits(hdulist) ==
    LET header == hdulist[IndexOf(hdulist, "PRIMARY")].header
        st == from_nifits_loop(hdulist,
                  [raised |-> "none", obj_dict |-> [a \in {} |-> None],
                   notices |-> <<>>], 1)
    IN  IF st.raised # "none"
        THEN [raised |-> st.raised, obj |-> NoContainer, notices |-> st.notices]
        ELSE LET c == nifits(header, st.obj_dict) IN
             [raised |-> c.raised, obj |-> c.obj, notices |-> st.notices]

\* arr[mask]: numpy boolean indexing of a sequence.
RECURSIVE BoolIndex(_, _, _)
BoolIndex(arr, mask, i) ==
    IF i > Len(arr) THEN <<>>
    ELSE IF mask[i] THEN <<arr[i]>> \o BoolIndex(arr, mask, i + 1)
         ELSE BoolIndex(arr, mask, i + 1)

logical_not(mask) == [i \in 1..Len(mask) |-> ~mask[i]]

\* A selection that looks at dynamic_only first.
select_extensions_dynamic_first(static_only, dynamic_only) ==
    IF dynamic_only
    THEN BoolIndex(NIFITS_EXTENSIONS, logical_not(STATIC_EXTENSIONS), 1)
    ELSE IF static_only
         THEN BoolIndex(NIFITS_EXTENSIONS, STATIC_EXTENSIONS, 1)
         ELSE NIFITS_EXTENSIONS

\* A selection that forgets the negation of the mask for dynamic_only.
select_extensions_unnegated(static_only, dynamic_only) ==
    IF static_only THEN BoolIndex(NIFITS_EXTENSIONS, STATIC_EXTENSIONS, 1)
    ELSE IF dynamic_only
         THEN BoolIndex(NIFITS_EXTENSIONS, STATIC_EXTENSIONS, 1)
         ELSE NIFITS_EXTENSIONS

\* The extension list to_nifits selects.
select_extensions(static_only, dynamic_only) ==
    IF static_only THEN BoolIndex(NIFITS_EXTENSIONS, STATIC_EXTENSIONS, 1)
    ELSE IF dynamic_only
         THEN BoolIndex(NIFITS_EXTENSIONS, logical_not(STATIC_EXTENSIONS), 1)
         ELSE NIFITS_EXTENSIONS

\* hdu.header[anext] = value on the primary record, the first of hdulist.
set_flag(hdulist, anext, value) ==
    [hdulist EXCEPT ![1].header.flags = (anext :> value) @@ @]

\* The loop of to_nifits over extension_list, from position i on.
RECURSIVE to_nifits_loop(_, _, _)
to_nifits_loop(extension_list, st, i) ==
    IF i > Len(extension_list) THEN st
    ELSE LET anext == extension_list[i] IN
         IF hasattr(st.self, lower(anext))
         THEN LET theobj == st.self.attrs[lower(anext)]
                  r == to_hdu(theobj)
              IN  IF r.raised # "none"
                  THEN [st EXCEPT !.raised = r.raised]
                  ELSE to_nifits_loop(extension_list,
                           [st EXCEPT
                               !.self.attrs[lower(anext)] = r.obj,
                               !.hdulist = set_flag(Append(@, r.hdu), anext, "Included")],
                           i + 1)
         ELSE to_nifits_loop(extension_list,
                  [st EXCEPT !.hdulist = set_flag(@, anext, "Not included")],
                  i + 1)

PrimaryHDU == Hdu("PRIMARY", <<>>, EmptyHeader)

\* hdulist.writeto(filename, overwrite): [raised, file].  A file is the
\* record list it holds; <<>> is no file.
writeto(hdulist, file, overwrite) ==
    IF file # <<>> /\ ~overwrite
    THEN [raised |-> "OSError", file |-> file]
    ELSE [raised |-> "none", file |-> hdulist]

\* A to_nifits that appends the primary record after the loop.
to_nifits_primary_last(self, static_only, dynamic_only, static_hash, writefile, overwrite, file) ==
    LET extension_list == select_extensions(static_only, dynamic_only)
        st == to_nifits_loop(extension_list,
                  [raised |-> "none", self |-> self, hdulist |-> <<PrimaryHDU>>], 1)
        hl == Tail(st.hdulist) \o << st.hdulist[1] >>
        w == writeto(hl, file, overwrite)
    IN  IF st.raised # "none" \/ ~writefile
        THEN [raised |-> st.raised, self |-> st.self, hdulist |-> hl,
              extension_list |-> extension_list, file |-> file, wrote |-> 0]
        ELSE [raised |-> w.raised, self |-> st.self, hdulist |-> hl,
              extension_list |-> extension_list, file |-> w.file,
              wrote |-> IF w.raised = "none" THEN 1 ELSE 0]

\* A to_nifits that writes the file whatever writefile says.
to_nifits_always_writes(self, static_only, dynamic_only, static_hash, writefile, overwrite, file) ==
    LET extension_list == select_extensions(static_only, dynamic_only)
        st == to_nifits_loop(extension_list,
                  [raised |-> "none", self |-> self, hdulist |-> <<PrimaryHDU>>], 1)
        w == writeto(st.hdulist, file, overwrite)
    IN  IF st.raised # "none"
        THEN [raised |-> st.raised, self |-> st.self, hdulist |-> st.hdulist,
              extension_list |-> extension_list, file |-> file, wrote |-> 0]
        ELSE [raised |-> w.raised, self |-> st.self, hdulist |-> st.hdulist,
              extension_list |-> extension_list, file |-> w.file,
              wrote |-> IF w.raised = "none" THEN 1 ELSE 0]

\* A to_nifits that refuses a dynamic-only save without the hash of the
\* static file.
to_nifits_hash_checked(self, static_only, dynamic_only, static_hash, writefile, overwrite, file) ==
    LET extension_list == select_extensions(static_only, dynamic_only)
        st == to_nifits_loop(extension_list,
                  [raised |-> "none", self |-> self, hdulist |-> <<PrimaryHDU>>], 1)
        w == writeto(st.hdulist, file, overwrite)
    IN  IF dynamic_only /\ static_hash = ""
        THEN [raised |-> "ValueError", self |-> self, hdulist |-> <<PrimaryHDU>>,
              extension_list |-> extension_list, file |-> file, wrote |-> 0]
        ELSE IF st.raised # "none" \/ ~writefile
        THEN [raised |-> st.raised, self |-> st.self, hdulist |-> st.hdulist,
              extension_list |-> extension_list, file |-> file, wrote |-> 0]
        ELSE [raised |-> w.raised, self |-> st.self, hdulist |-> st.hdulist,
              extension_list |-> extension_list, file |-> w.file,
              wrote |-> IF w.raised = "none" THEN 1 ELSE 0]

\* nifits.to_nifits: [raised, self, hdulist, extension_list, file, wrote]
to_nifits(self, static_only, dynamic_only, static_hash, writefile, overwrite, file) ==
    LET extension_list == select_extensions(static_only, dynamic_only)
        st == to_nifits_loop(extension_list,
                  [raised |-> "none", self |-> self, hdulist |-> <<PrimaryHDU>>], 1)
        w == writeto(st.hdulist, file, overwrite)
    IN  IF st.raised # "none" \/ ~writefile
        THEN [raised |-> st.raised, self |-> st.self, hdulist |-> st.hdulist,
              extension_list |-> extension_list, file |-> file, wrote |-> 0]
        ELSE [raised |-> w.raised, self |-> st.self, hdulist |-> st.hdulist,
              extension_list |-> extension_list, file |-> w.file,
              wrote |-> IF w.raised = "none" THEN 1 ELSE 0]

(***************************************************************************)
(* Inputs: the payloads callers build and the sources they open.           *)
(***************************************************************************)
Variants == 1..NVariants
LeadingDims == {2, 3}
SourceOrder == NIFITS_EXTENSIONS \o << "OI_TARGET" >>
Ord(cls) == CHOOSE i \in 1..Len(SourceOrder) : SourceOrder[i] = cls
ClassOfAttr(a) == CHOOSE k \in ClassNames : lower(k) = a

\* The in-memory payload of variant v for a class: v rows or elements, the
\* values distinct from one class to the next.
Payload(cls, v) ==
    IF getclass(cls).base = "NI_EXTENSION_CPX_ARRAY"
    THEN [i \in 1..v |-> Cpx(Fin(10 * Ord(cls) + i), Fin(-i))]
    ELSE [i \in 1..v |-> Fin(10 * Ord(cls) + i)]

\* The payload of a record of the class in a source, with d planes for a
\* complex array.
DiskPayload(cls, v, d) ==
    IF getclass(cls).base = "NI_EXTENSION_CPX_ARRAY"
    THEN [p \in 1..d |-> [i \in 1..v |->
             IF p = 1 THEN Fin(10 * Ord(cls) + i) ELSE Fin(-i)]]
    ELSE Payload(cls, v)

DiskShape(cls, v, d) ==
    IF getclass(cls).base = "NI_EXTENSION_CPX_ARRAY" THEN <<d, v>> ELSE <<v>>

\* An object a caller builds for a slot.
NewObject(cls, v) == ExtObject(cls, Payload(cls, v), Header(<<>>, "UNITS", NoFlags))

\* A source: a primary record followed by one record per name of P.
RECURSIVE SourceRecords(_, _, _, _)
SourceRecords(P, v, d, i) ==
    IF i > Len(SourceOrder) THEN <<>>
    ELSE IF SourceOrder[i] \in P
         THEN << Hdu(SourceOrder[i], DiskPayload(SourceOrder[i], v, d),
                     Header(DiskShape(SourceOrder[i], v, d), "UNITS", NoFlags)) >>
              \o SourceRecords(P, v, d, i + 1)
         ELSE SourceRecords(P, v, d, i + 1)

Source(P, v, d) ==
    << Hdu("PRIMARY", <<>>, Header(<<>>, "ORIGIN", NoFlags)) >> \o SourceRecords(P, v, d, 1)

(***************************************************************************)
(* State.                                                                  *)
(***************************************************************************)
VARIABLES
    obj,             \* the container the caller holds (NoContainer: none yet)
    source,          \* the record list last given to from_nifits
    loaded,          \* the container from_nifits returned for the last saved record list
    hdulist,         \* the record list of the last to_nifits, as it stood when the call ended
    extension_list,  \* the extension list the last to_nifits selected
    notices,         \* the kinds the last from_nifits reported missing, in order
    raised,          \* the exception the last call ended with, "none" on a return
    last,            \* the last call and its arguments
    file,            \* the record list stored under the file name, <<>> when none
    cobj,            \* codec: the complex-array object in hand
    chdu,            \* codec: the image record in hand
    corig,           \* codec: the value the run started from
    ctrace,          \* codec: the codec calls made so far
    heap,            \* the mutable lists, tables and arrays in memory, by address
    stations,        \* the OI_STATION objects the caller holds, in order of construction
    sargs,           \* the arguments each of them was constructed with
    sres,            \* the last call on the stations or the targets, and its outcome
    targets,         \* the OI_TARGET objects the caller holds, in order of construction
    tlog,            \* the keyword arguments of the add_target calls made on each of them
    xobj,            \* object: the extension object in hand, payload and header by address
    xhdu,            \* object: the record in hand, payload and header by address
    xtrace           \* object: the calls and assignments made so far

vars == << obj, source, loaded, hdulist, extension_list, notices, raised, last,
           file, cobj, chdu, corig, ctrace, heap, stations, sargs, sres,
           targets, tlog, xobj, xhdu, xtrace >>
svars == << heap, stations, sargs, sres, targets, tlog >>
ovars == << xobj, xhdu, xtrace >>
cvars == << cobj, chdu, corig, ctrace >>
mvars == << obj, source, loaded, hdulist, extension_list, notices, raised, last,
           file >>

Call(op, static_only, dynamic_only, static_hash, writefile, overwrite, wrote) ==
    [op |-> op, static_only |-> static_only, dynamic_only |-> dynamic_only,
     static_hash |-> static_hash, writefile |-> writefile,
     overwrite |-> overwrite, wrote |-> wrote]
NoCall(op) == Call(op, FALSE, FALSE, "", FALSE, FALSE, 0)

MainStart ==
    /\ obj = NoContainer
    /\ source = <<>>
    /\ loaded = NoContainer
    /\ hdulist = <<>>
    /\ extension_list = <<>>
    /\ notices = <<>>
    /\ raised = "none"
    /\ last = NoCall("init")

MainInit ==
    /\ MainStart
    /\ file = <<>>

\* A file written under the file name before the session starts.
OldFile == << Hdu("PRIMARY", <<>>, Header(<<>>, "OLD", NoFlags)) >>

CodecIdle ==
    /\ cobj = None
    /\ chdu = NoHdu
    /\ corig = [side |-> "none", data |-> <<>>]
    /\ ctrace = <<>>

\* The list [None, None, None] bound as the default of staxyz when the class
\* OI_STATION is defined: one list, at address 1, for the life of the module.
DefaultStaxyz == 1
ImportedHeap == << << None, None, None >> >>

StationIdle ==
    /\ heap = ImportedHeap
    /\ stations = <<>>
    /\ sargs = <<>>
    /\ sres = [op |-> "none", who |-> 0, raised |-> "none", value |-> FALSE]
    /\ targets = <<>>
    /\ tlog = <<>>

ObjectIdle ==
    /\ xobj = None
    /\ xhdu = NoHdu
    /\ xtrace = <<>>

\* A session with the container: the file name is free or taken.
Init ==
    /\ MainStart
    /\ file \in {<<>>, OldFile}
    /\ CodecIdle /\ StationIdle /\ ObjectIdle

\* obj = nifits(**kwargs): the caller builds a container from objects of
\* variant v for the keywords of S.
Construct ==
    /\ ~IsContainer(obj)
    /\ last.op = "init"
    /\ \E S \in SUBSET (nifits_fields \cup {"oi_array"}), v \in Variants :
        LET r == nifits(EmptyHeader, [a \in S |-> NewObject(ClassOfAttr(a), v)]) IN
        /\ obj' = r.obj
        /\ raised' = r.raised
    /\ last' = NoCall("nifits")
    /\ UNCHANGED << source, loaded, hdulist, extension_list, notices, file >>
    /\ UNCHANGED << cvars, svars, ovars >>

\* obj.oi_array = OI_ARRAY(...): the caller attaches an attribute the
\* dataclass does not declare, an array geometry of one row.
SetAttr ==
    /\ IsContainer(obj)
    /\ last.op \in {"nifits", "from_nifits"}
    /\ ~hasattr(obj, "oi_array")
    /\ obj' = [obj EXCEPT !.attrs = ("oi_array" :> NewObject("OI_ARRAY", 1)) @@ @]
    /\ raised' = "none"
    /\ last' = NoCall("setattr")
    /\ UNCHANGED << source, loaded, hdulist, extension_list, notices, file >>
    /\ UNCHANGED << cvars, svars, ovars >>

\* obj = nifits.from_nifits(source) on a source the caller opened.
Load ==
    /\ ~IsContainer(obj)
    /\ last.op = "init"
    /\ \E P \in SUBSET ClassNames, v \in Variants, d \in LeadingDims :
        LET src == Source(P, v, d)
            r == from_nifits(src)
        IN  /\ source' = src
            /\ obj' = r.obj
            /\ notices' = r.notices
            /\ raised' = r.raised
    /\ last' = NoCall("from_nifits")
    /\ UNCHANGED << loaded, hdulist, extension_list, file >>
    /\ UNCHANGED << cvars, svars, ovars >>

\* The values callers pass for static_hash.
StaticHashes == {"", "hash"}

\* obj.to_nifits(filename, static_only, dynamic_only, static_hash, writefile, overwrite),
\* called on the container the caller has built or loaded; overwrite is
\* passed only by callers that write the file.
ToNifits ==
    /\ IsContainer(obj)
    /\ last.op \in {"nifits", "setattr", "from_nifits"}
    /\ \E static_only \in BOOLEAN, dynamic_only \in BOOLEAN, static_hash \in StaticHashes,
          writefile \in BOOLEAN, overwrite \in BOOLEAN :
        /\ overwrite => writefile
        /\ LET r == to_nifits(obj, static_only, dynamic_only, static_hash,
                              writefile, overwrite, file)
           IN
            /\ obj' = r.self
            /\ hdulist' = r.hdulist
            /\ extension_list' = r.extension_list
            /\ file' = r.file
            /\ raised' = r.raised
            /\ last' = Call("to_nifits", static_only, dynamic_only, static_hash,
                            writefile, overwrite, r.wrote)
    /\ loaded' = NoContainer
    /\ UNCHANGED << source, notices >>
    /\ UNCHANGED << cvars, svars, ovars >>

\* loaded = nifits.from_nifits(hdulist) on the record list to_nifits returned.
Reload ==
    /\ last.op = "to_nifits"
    /\ raised = "none"
    /\ LET r == from_nifits(hdulist) IN
        /\ loaded' = r.obj
        /\ notices' = r.notices
        /\ raised' = r.raised
    /\ source' = hdulist
    /\ last' = [last EXCEPT !.op = "reload"]
    /\ UNCHANGED << obj, hdulist, extension_list, file >>
    /\ UNCHANGED << cvars, svars, ovars >>

Next == Construct \/ SetAttr \/ Load \/ ToNifits \/ Reload

Spec == Init /\ [][Next]_vars

(***************************************************************************)
(* The complex codec on its own: a run starts from a complex array x held  *)
(* by an NI_CATM object, or from an image record y read from a file, and   *)
(* applies to_hdu and from_hdu in turn.                                    *)
(***************************************************************************)
ComplexArrays(n) == [1..n -> CVals]
Planes(n) == [1..n -> FVals]
ZeroPlane(n) == [i \in 1..n |-> Fin(0)]
\* An image payload: two planes of equal length, or three (a malformed record).
ImageArray(p0, p1, d) == IF d = 2 THEN <<p0, p1>> ELSE <<p0, p1, ZeroPlane(Len(p0))>>

CodecHeader == Header(<<>>, "UNITS", NoFlags)

InitCodec ==
    /\ MainInit
    /\ StationIdle
    /\ ObjectIdle
    /\ ctrace = <<>>
    /\ \/ \E n \in 0..MaxLen : \E x \in ComplexArrays(n) :
            /\ cobj = ExtObject("NI_CATM", x, CodecHeader)
            /\ chdu = NoHdu
            /\ corig = [side |-> "obj", data |-> x]
       \/ \E n \in 0..MaxLen : \E p0 \in Planes(n), p1 \in Planes(n), d \in LeadingDims :
            /\ cobj = None
            /\ chdu = Hdu("NI_CATM", ImageArray(p0, p1, d), CodecHeader)
            /\ corig = [side |-> "hdu", data |-> ImageArray(p0, p1, d)]

LastCodecCall == IF ctrace = <<>> THEN "" ELSE ctrace[Len(ctrace)]

\* chdu = cobj.to_hdu()
CpxToHdu ==
    /\ ~IsNone(cobj)
    /\ Len(ctrace) < 2
    /\ LastCodecCall # "to_hdu"
    /\ LET r == to_hdu(cobj) IN
        /\ cobj' = r.obj
        /\ chdu' = r.hdu
    /\ ctrace' = Append(ctrace, "to_hdu")
    /\ UNCHANGED corig
    /\ UNCHANGED << mvars, svars, ovars >>

\* cobj = NI_CATM.from_hdu(chdu)
CpxFromHdu ==
    /\ chdu # NoHdu
    /\ Len(ctrace) < 2
    /\ LastCodecCall \in {"", "to_hdu"}
    /\ LET r == from_hdu("NI_CATM", chdu) IN
        /\ cobj' = r.obj
        /\ ctrace' = Append(ctrace, IF r.raised = "none" THEN "from_hdu" ELSE r.raised)
    /\ UNCHANGED << chdu, corig >>
    /\ UNCHANGED << mvars, svars, ovars >>

NextCodec == CpxToHdu \/ CpxFromHdu

SpecCodec == InitCodec /\ [][NextCodec]_vars

(***************************************************************************)
(* The station descriptor OI_STATION.  A Python list is a mutable object:  *)
(* a station holds the address of its position vector in heap.             *)
(***************************************************************************)
Str(s) == [s |-> s]
Omitted == <<>>
Revisions == {1, 2, 3}

\* A constructor that drops the field of view below revision 3 instead of 2.
OI_STATION_init_late(tel_name, sta_name, diameter, staxyz, fov, fovtype, revision) ==
    [self |-> [revision |-> revision, tel_name |-> tel_name, sta_name |-> sta_name,
               diameter |-> diameter, staxyz |-> staxyz,
               fov |-> IF revision > 2 THEN fov ELSE None,
               fovtype |-> IF revision > 2 THEN fovtype ELSE None],
     warned |-> revision > 2]

\* OI_STATION.__init__, staxyz being the address of the list bound to the
\* parameter: [self, warned], warned telling whether the UserWarning was issued.
OI_STATION_init(tel_name, sta_name, diameter, staxyz, fov, fovtype, revision) ==
    [self |-> [revision |-> revision, tel_name |-> tel_name, sta_name |-> sta_name,
               diameter |-> diameter, staxyz |-> staxyz,
               fov |-> IF revision >= 2 THEN fov ELSE None,
               fovtype |-> IF revision >= 2 THEN fovtype ELSE None],
     warned |-> revision > 2]

\* The name _array_eq is bound nowhere in the module (the function defined
\* there is array_eq): evaluating the call raises NameError.
_array_eq(a, b) == [raised |-> "NameError", value |-> FALSE]

\* OI_STATION.__eq__ on two stations, h being the heap: [raised, value].
\* The operands of `or` are evaluated from left to right up to the first
\* true one.
OI_STATION_eq(self, other, h) ==
    IF \/ self.revision # other.revision
       \/ self.tel_name # other.tel_name
       \/ self.sta_name # other.sta_name
       \/ self.diameter # other.diameter
    THEN [raised |-> "none", value |-> FALSE]
    ELSE LET r == _array_eq(h[self.staxyz], h[other.staxyz]) IN
         IF r.raised # "none" THEN [raised |-> r.raised, value |-> FALSE]
         ELSE [raised |-> "none",
               value |-> ~(\/ ~r.value
                           \/ self.fov # other.fov
                           \/ self.fovtype # other.fovtype)]

\* The arguments of the first construction, and those of the second: the
\* same ones, or the same ones but for one field.
Origin == << Fin(0), Fin(0), Fin(0) >>
FirstArgs ==
    [tel_name : {Str("UT1")}, sta_name : {Str("U1")}, diameter : {Fin(8)},
     staxyz : {Omitted, Origin}, fov : {None, Fin(1)},
     fovtype : {None, Str("radius")}, revision : Revisions]
Variations(a) ==
    {a} \cup {[a EXCEPT !.revision = r] : r \in Revisions}
        \cup {[a EXCEPT !.tel_name = Str("UT2")], [a EXCEPT !.sta_name = Str("U2")],
              [a EXCEPT !.diameter = Fin(2)]}
        \cup {[a EXCEPT !.staxyz = x] :
                 x \in {Omitted, Origin} \cup {[Origin EXCEPT ![k] = Fin(1)] : k \in 1..3}}
        \cup {[a EXCEPT !.fov = f] : f \in {None, Fin(1), Fin(2)}}
        \cup {[a EXCEPT !.fovtype = t] : t \in {None, Str("radius"), Str("diameter")}}

\* stations.append(OI_STATION(...)): an omitted staxyz binds the default
\* list, a list the caller passes is a list of its own.
NewStation ==
    /\ targets = <<>>
    /\ Len(stations) < 2
    /\ sres.op # "eq"
    /\ \E a \in (IF stations = <<>> THEN FirstArgs ELSE Variations(sargs[1])) :
        LET addr == IF a.staxyz = Omitted THEN DefaultStaxyz ELSE Len(heap) + 1
            r == OI_STATION_init(a.tel_name, a.sta_name, a.diameter, addr,
                                 a.fov, a.fovtype, a.revision)
        IN  /\ heap' = IF a.staxyz = Omitted THEN heap ELSE Append(heap, a.staxyz)
            /\ stations' = Append(stations, r.self)
            /\ sargs' = Append(sargs, a)
            /\ sres' = [op |-> "init", who |-> Len(stations) + 1, raised |-> "none",
                        value |-> r.warned]
    /\ UNCHANGED << targets, tlog >>
    /\ UNCHANGED << mvars, cvars, ovars >>

\* stations[i].staxyz[k] = x: the list is changed in place.
SetCoord ==
    /\ sres.op = "init"
    /\ \E i \in 1..Len(stations), k \in 1..3, x \in {Fin(0), Fin(1)} :
        /\ heap' = [heap EXCEPT ![stations[i].staxyz][k] = x]
        /\ sres' = [op |-> "setcoord", who |-> i, raised |-> "none", value |-> FALSE]
    /\ UNCHANGED << stations, sargs, targets, tlog >>
    /\ UNCHANGED << mvars, cvars, ovars >>

\* stations[0] == stations[1]
Eq ==
    /\ Len(stations) = 2
    /\ sres.op # "eq"
    /\ LET r == OI_STATION_eq(stations[1], stations[2], heap) IN
        sres' = [op |-> "eq", who |-> 0, raised |-> r.raised, value |-> r.value]
    /\ UNCHANGED << heap, stations, sargs, targets, tlog >>
    /\ UNCHANGED << mvars, cvars, ovars >>

(***************************************************************************)
(* The target list OI_TARGET.  A session works on stations or on target    *)
(* lists.  A table and a header are mutable objects held by address.       *)
(***************************************************************************)
MaxRows == 2     \* add_target is called at most MaxRows times on one object
NoAddr == 0      \* the address passed for a field left to its default

Table(names, rows) == [names |-> names, rows |-> rows]

\* The column names from_scratch gives the table, and the parameters of
\* add_target with their defaults, in the order of the vals list.
OI_TARGET_names ==
    << "TARGET_ID", "TARGET", "RAEP0", "DECEP0", "EQUINOX", "RA_ERR", "DEC_ERR",
       "SYSVEL", "VELTYP", "VELDEF", "PMRA", "PMDEC", "PMRA_ERR", "PMDEC_ERR",
       "PARALLAX", "PARA_ERR", "SPECTYP", "CATEGORY" >>
add_target_params ==
    << "target_id", "target", "raep0", "decep0", "equinox", "ra_err", "dec_err",
       "sysvel", "veltyp", "veldef", "pmra", "pmdec", "pmra_err", "pmdec_err",
       "parallax", "para_err", "spectyp", "category" >>
add_target_defaults ==
    << 0, "MyTarget", Fin(0), Fin(0), Fin(0), Fin(0), Fin(0),
       Fin(0), "", "", Fin(0), Fin(0), Fin(0), Fin(0),
       Fin(0), Fin(0), "", "" >>

\* The dataclass constructor of an extension class, h being the heap:
\* [self, heap].  A field left out gets a new object from its
\* default_factory (Table(), fits.Header()).
NI_EXTENSION_init(h, cls, data_table, header) ==
    LET h1 == IF data_table = NoAddr THEN Append(h, Table(<<>>, <<>>)) ELSE h
        t == IF data_table = NoAddr THEN Len(h1) ELSE data_table
        h2 == IF header = NoAddr THEN Append(h1, EmptyHeader) ELSE h1
        hd == IF header = NoAddr THEN Len(h2) ELSE header
    IN  [self |-> [cls |-> cls, data_table |-> t, header |-> hd], heap |-> h2]

\* OI_TARGET.from_scratch: a new table with the 18 columns and no row.
OI_TARGET_from_scratch(h) ==
    LET h1 == Append(h, Table(OI_TARGET_names, <<>>))
    IN  NI_EXTENSION_init(h1, "OI_TARGET", Len(h1), NoAddr)

\* An add_target that refuses a target_id the table already holds.
OI_TARGET_add_target_unique(h, self, kwargs) ==
    LET vals == [i \in 1..Len(add_target_params) |->
                    IF add_target_params[i] \in DOMAIN kwargs
                    THEN kwargs[add_target_params[i]] ELSE add_target_defaults[i]]
        t == h[self.data_table]
    IN  IF Len(vals) # Len(t.names) \/ \E j \in 1..Len(t.rows) : t.rows[j][1] = vals[1]
        THEN [raised |-> "ValueError", heap |-> h]
        ELSE [raised |-> "none",
              heap |-> [h EXCEPT ![self.data_table].rows = Append(@, vals)]]

\* OI_TARGET.add_target(**kwargs): [raised, heap].  Table.add_row appends
\* vals to the table in place and refuses a vals list whose length is not
\* the number of columns.
OI_TARGET_add_target(h, self, kwargs) ==
    LET vals == [i \in 1..Len(add_target_params) |->
                    IF add_target_params[i] \in DOMAIN kwargs
                    THEN kwargs[add_target_params[i]] ELSE add_target_defaults[i]]
        t == h[self.data_table]
    IN  IF Len(vals) # Len(t.names)
        THEN [raised |-> "ValueError", heap |-> h]
        ELSE [raised |-> "none",
              heap |-> [h EXCEPT ![self.data_table].rows = Append(@, vals)]]

\* The keyword arguments callers pass to add_target.
TargetKwargs ==
    { [target_id |-> 0], [target_id |-> 0, target |-> "Vega"],
      [target_id |-> 1, target |-> "Vega", raep0 |-> Fin(1)] }

\* targets.append(OI_TARGET.from_scratch()), or targets.append(OI_TARGET())
\* with both fields left to their defaults.
NewTarget ==
    /\ stations = <<>>
    /\ Len(targets) < 2
    /\ \E scratch \in BOOLEAN :
        LET r == IF scratch THEN OI_TARGET_from_scratch(heap)
                 ELSE NI_EXTENSION_init(heap, "OI_TARGET", NoAddr, NoAddr)
        IN  /\ heap' = r.heap
            /\ targets' = Append(targets, r.self)
            /\ sres' = [op |-> IF scratch THEN "from_scratch" ELSE "OI_TARGET",
                        who |-> Len(targets) + 1, raised |-> "none", value |-> FALSE]
    /\ tlog' = Append(tlog, <<>>)
    /\ UNCHANGED << stations, sargs >>
    /\ UNCHANGED << mvars, cvars, ovars >>

\* targets[i].add_target(**kwargs)
AddTarget ==
    /\ \E i \in 1..Len(targets) :
        /\ Len(tlog[i]) < MaxRows
        /\ \E kwargs \in {[k \in {} |-> 0]} \cup TargetKwargs :
            LET r == OI_TARGET_add_target(heap, targets[i], kwargs) IN
            /\ heap' = r.heap
            /\ tlog' = [tlog EXCEPT ![i] = Append(@, kwargs)]
            /\ sres' = [op |-> "add_target", who |-> i, raised |-> r.raised,
                        value |-> FALSE]
    /\ UNCHANGED << stations, sargs, targets >>
    /\ UNCHANGED << mvars, cvars, ovars >>

\* targets[i].header["EXTNAME"] = ...: the header is changed in place.
SetCard ==
    /\ \E i \in 1..Len(targets) :
        /\ heap[targets[i].header].card = ""
        /\ heap' = [heap EXCEPT ![targets[i].header].card = "EXTNAME"]
        /\ sres' = [op |-> "setcard", who |-> i, raised |-> "none", value |-> FALSE]
    /\ UNCHANGED << stations, sargs, targets, tlog >>
    /\ UNCHANGED << mvars, cvars, ovars >>

NextValue == NewStation \/ SetCoord \/ Eq \/ NewTarget \/ AddTarget \/ SetCard

InitValue == MainInit /\ CodecIdle /\ StationIdle /\ ObjectIdle

SpecValue == InitValue /\ [][NextValue]_vars

(***************************************************************************)
(* One record and the extension object decoded from it, payloads and       *)
(* headers held by address: what from_hdu and to_hdu copy, and what they   *)
(* share with their argument.                                              *)
(***************************************************************************)
\* The payload from_hdu binds to the object: Table(hdu.data) is a new
\* table, hdu.data is the record's own array, hdu.data[0] + 1j*hdu.data[1]
\* is a new array.
from_hdu_payload(base) ==
    CASE base = "NI_EXTENSION" -> "new"
      [] base = "NI_EXTENSION_ARRAY" -> "same"
      [] base = "NI_EXTENSION_CPX_ARRAY" -> "new"

\* The payload of the record to_hdu builds: BinTableHDU converts the table
\* into one of its own, ImageHDU keeps the array it is given, and
\* np.array([real, imag]) is a new array.
to_hdu_payload(base) ==
    CASE base = "NI_EXTENSION" -> "new"
      [] base = "NI_EXTENSION_ARRAY" -> "same"
      [] base = "NI_EXTENSION_CPX_ARRAY" -> "new"

\* The record and the object at the addresses r and o hold, h being the heap.
HduAt(h, r) == Hdu(r.name, h[r.data], h[r.header])
ObjAt(h, o) == ExtObject(o.cls, h[o.data], h[o.header])

ObjectClasses == {"OI_WAVELENGTH", "NI_KMAT", "NI_CATM", "NI_KCOV"}
Cards == {"UNITS", "COMMENT"}

\* A record read from a file: its payload and its header are new objects.
InitObject ==
    /\ MainInit
    /\ CodecIdle
    /\ stations = <<>> /\ sargs = <<>> /\ targets = <<>> /\ tlog = <<>>
    /\ sres = [op |-> "none", who |-> 0, raised |-> "none", value |-> FALSE]
    /\ xobj = None
    /\ xtrace = <<>>
    /\ \E cls \in ObjectClasses, v \in Variants, d \in LeadingDims, card \in Cards :
        /\ heap = ImportedHeap \o << DiskPayload(cls, v, d),
                                     Header(DiskShape(cls, v, d), card, NoFlags) >>
        /\ xhdu = [name |-> cls, data |-> Len(ImportedHeap) + 1,
                   header |-> Len(ImportedHeap) + 2]

Done(op) == \E i \in 1..Len(xtrace) : xtrace[i] = op

\* xobj = getclass(xhdu.name).from_hdu(xhdu): the object holds the header of
\* the record itself.
Decode ==
    /\ xtrace = <<>>
    /\ LET r == from_hdu(xhdu.name, HduAt(heap, xhdu))
           same == from_hdu_payload(getclass(xhdu.name).base) = "same"
       IN  IF r.raised # "none"
           THEN /\ xtrace' = << r.raised >>
                /\ UNCHANGED << heap, xobj >>
           ELSE /\ heap' = IF same THEN heap ELSE Append(heap, r.obj.data)
                /\ xobj' = [cls |-> r.obj.cls,
                            data |-> IF same THEN xhdu.data ELSE Len(heap) + 1,
                            header |-> xhdu.header]
                /\ xtrace' = << "from_hdu" >>
    /\ UNCHANGED << xhdu, stations, sargs, sres, targets, tlog >>
    /\ UNCHANGED << mvars, cvars >>

\* xhdu.data[0] = ... : the payload of the record is changed in place.
PokeRecord ==
    /\ Done("from_hdu") /\ ~Done("to_hdu") /\ ~Done("poke_record")
    /\ heap' = [heap EXCEPT ![xhdu.data] =
                   IF getclass(xhdu.name).base = "NI_EXTENSION_CPX_ARRAY"
                   THEN [@ EXCEPT ![1][1] = Fin(99)] ELSE [@ EXCEPT ![1] = Fin(99)]]
    /\ xtrace' = Append(xtrace, "poke_record")
    /\ UNCHANGED << xobj, xhdu, stations, sargs, sres, targets, tlog >>
    /\ UNCHANGED << mvars, cvars >>

\* xobj.data_array[0] = ... (data_table for a table): the payload of the
\* object is changed in place.
PokeObject ==
    /\ Done("from_hdu") /\ ~Done("to_hdu") /\ ~Done("poke_object")
    /\ heap[xobj.data] # <<>>
    /\ heap' = [heap EXCEPT ![xobj.data][1] =
                   IF getclass(xobj.cls).base = "NI_EXTENSION_CPX_ARRAY"
                   THEN Cpx(Fin(98), Fin(0)) ELSE Fin(98)]
    /\ xtrace' = Append(xtrace, "poke_object")
    /\ UNCHANGED << xobj, xhdu, stations, sargs, sres, targets, tlog >>
    /\ UNCHANGED << mvars, cvars >>

\* The payload of the object is resized: rows are added to or removed from
\* the table in place, an array attribute is bound to a new array.
Resize ==
    /\ Done("from_hdu") /\ ~Done("to_hdu") /\ ~Done("resize")
    /\ \E v \in 0..(NVariants + 1) :
        /\ v # Len(heap[xobj.data])
        /\ IF getclass(xobj.cls).base = "NI_EXTENSION"
           THEN /\ heap' = [heap EXCEPT ![xobj.data] = Payload(xobj.cls, v)]
                /\ UNCHANGED xobj
           ELSE /\ heap' = Append(heap, Payload(xobj.cls, v))
                /\ xobj' = [xobj EXCEPT !.data = Len(heap) + 1]
    /\ xtrace' = Append(xtrace, "resize")
    /\ UNCHANGED << xhdu, stations, sargs, sres, targets, tlog >>
    /\ UNCHANGED << mvars, cvars >>

\* xhdu = xobj.to_hdu(): the record has a new header, which the object
\* holds from then on.
Encode ==
    /\ Done("from_hdu") /\ ~Done("to_hdu") /\ ~Done("AttributeError")
    /\ LET r == to_hdu(ObjAt(heap, xobj))
           same == to_hdu_payload(getclass(xobj.cls).base) = "same"
           h1 == IF same THEN heap ELSE Append(heap, r.hdu.data)
           h2 == Append(h1, r.hdu.header)
       IN  IF r.raised # "none"
           THEN /\ xtrace' = Append(xtrace, r.raised)
                /\ UNCHANGED << heap, xobj, xhdu >>
           ELSE /\ heap' = h2
                /\ xhdu' = [name |-> r.hdu.name,
                            data |-> IF same THEN xobj.data ELSE Len(h1),
                            header |-> Len(h2)]
                /\ xobj' = [xobj EXCEPT !.header = Len(h2)]
                /\ xtrace' = Append(xtrace, "to_hdu")
    /\ UNCHANGED << stations, sargs, sres, targets, tlog >>
    /\ UNCHANGED << mvars, cvars >>

NextObject == Decode \/ PokeRecord \/ PokeObject \/ Resize \/ Encode

SpecObject == InitObject /\ [][NextObject]_vars

(***************************************************************************)
(* Properties.                                                             *)
(***************************************************************************)
Range(seq) == {seq[i] : i \in 1..Len(seq)}
Kinds == Range(NIFITS_EXTENSIONS)
StaticKinds == {NIFITS_EXTENSIONS[i] : i \in {j \in 1..Len(NIFITS_EXTENSIONS) : STATIC_EXTENSIONS[j]}}
DynamicKinds == {NIFITS_EXTENSIONS[i] : i \in {j \in 1..Len(NIFITS_EXTENSIONS) : ~STATIC_EXTENSIONS[j]}}

\* The slots of a container that hold an object.
Populated(c) == {a \in DOMAIN c.attrs : ~IsNone(c.attrs[a])}
IsPopulated(c, K) == lower(K) \in Populated(c)

\* The extension records of a record list, and the manifest of its primary record.
RecordNames(hl) == {hl[i].name : i \in 2..Len(hl)}
RecordCount(hl, K) == Cardinality({i \in 2..Len(hl) : hl[i].name = K})
Manifest(hl) == hl[1].header.flags
Flag(hl, K) == IF K \in DOMAIN Manifest(hl) THEN Manifest(hl)[K] ELSE "unset"
NoticeCount(K) == Cardinality({i \in 1..Len(notices) : notices[i] = K})

\* The payload of a slot as a record carries it: a complex array as its two planes.
OnDisk(o) ==
    IF getclass(o.cls).base = "NI_EXTENSION_CPX_ARRAY"
    THEN << [i \in 1..Len(o.data) |-> o.data[i].re],
            [i \in 1..Len(o.data) |-> o.data[i].im] >>
    ELSE o.data

SavedFull == ~last.static_only /\ ~last.dynamic_only
SavedStatic == last.static_only /\ ~last.dynamic_only
SavedDynamic == last.dynamic_only /\ ~last.static_only

\* C1: round trip.  A full-mode to_nifits of a container with a non-empty
\* set of populated slots returns, and from_nifits on its record list
\* returns a container with the same populated slots and equal payloads.
C1_RoundTrip ==
    /\ (last.op = "to_nifits" /\ SavedFull /\ Populated(obj) # {})
          => raised = "none"
    /\ (last.op = "reload" /\ SavedFull /\ Populated(obj) # {})
          => /\ raised = "none"
             /\ Populated(loaded) = Populated(obj)
             /\ \A a \in Populated(obj) : loaded.attrs[a].data = obj.attrs[a].data

\* A source whose present records are well-formed: a complex-array record
\* has exactly two planes.
WellFormed(hl) ==
    \A i \in 1..Len(hl) :
        (hl[i].name \in ClassNames /\ getclass(hl[i].name).base = "NI_EXTENSION_CPX_ARRAY")
            => Len(hl[i].data) = 2

\* C2: from_nifits binds exactly the present kinds.  On a well-formed
\* source the load returns a container whose slot for a kind K of the list
\* is populated, with the decode of K's record, iff the source holds a
\* record named K.
C2_LoadBindsPresent ==
    (last.op = "from_nifits" /\ WellFormed(source))
        => /\ raised = "none"
           /\ \A K \in Kinds :
                 /\ IsPopulated(obj, K) <=> Contains(source, K)
                 /\ Contains(source, K) =>
                       obj.attrs[lower(K)] = from_hdu(K, source[IndexOf(source, K)]).obj

\* C3: an unpopulated slot is not fatal to to_nifits.  For every selected
\* kind whose slot is empty the save returns, holds no record of that kind
\* and flags the kind "Not included".
C3_EmptySlotNotFatal ==
    last.op = "to_nifits"
        => \A K \in Range(extension_list) :
              ~IsPopulated(obj, K)
                  => /\ raised = "none"
                     /\ RecordCount(hdulist, K) = 0
                     /\ Flag(hdulist, K) = "Not included"

\* C4: a populated slot is written and flagged.  In a save none of whose
\* selected slots holds None, every selected kind whose slot is populated has
\* exactly one record of its name and the flag "Included"; NI_KCOV and
\* NI_KMAT are such kinds.
C4_PopulatedSlotIncluded ==
    (/\ last.op = "to_nifits"
     /\ \A K \in Range(extension_list) :
           hasattr(obj, lower(K)) => IsPopulated(obj, K))
        => \A K \in Range(extension_list) :
              IsPopulated(obj, K)
                  => /\ RecordCount(hdulist, K) = 1
                     /\ Flag(hdulist, K) = "Included"

ScenarioANames == {"OI_ARRAY", "OI_WAVELENGTH", "NI_CATM", "NI_FOV"}

\* C5: missing kinds never abort from_nifits.  On a well-formed source every
\* absent kind of the list gets exactly one notice and an empty slot, a
\* present kind gets none, and a source with only array geometry,
\* wavelength grid, transfer matrix and field of view yields six notices.
C5_MissingKindsNoticed ==
    (last.op = "from_nifits" /\ WellFormed(source))
        => /\ \A K \in Kinds :
                 /\ NoticeCount(K) = (IF Contains(source, K) THEN 0 ELSE 1)
                 /\ (IsContainer(obj) /\ ~Contains(source, K)) => ~IsPopulated(obj, K)
           /\ RecordNames(source) = ScenarioANames => Len(notices) = 6

ScenarioA(c) == Populated(c) = {lower(K) : K \in ScenarioANames}

\* The save built its record list: it returned, or it ended with the
\* OSError of writeto, asked to write under a name that is taken without
\* overwrite.
Built ==
    \/ raised = "none"
    \/ /\ raised = "OSError"
       /\ last.writefile /\ ~last.overwrite /\ last.wrote = 0
       /\ file # <<>>
ScenarioARecords(c, hl) ==
    /\ Len(hl) = 5
    /\ RecordNames(hl) = ScenarioANames
    /\ \A i \in 2..Len(hl) : hl[i].data = OnDisk(c.attrs[lower(hl[i].name)])

C7_SelectionFromPartition ==
    last.op = "to_nifits"
        => /\ SavedStatic => Range(extension_list) = StaticKinds
           /\ SavedDynamic => Range(extension_list) = DynamicKinds
           /\ SavedFull => extension_list = NIFITS_EXTENSIONS
           /\ RecordNames(hdulist) \cup DOMAIN Manifest(hdulist) \subseteq Range(extension_list)
           /\ raised = "none" => DOMAIN Manifest(hdulist) = Range(extension_list)

C7_Witness ==
    /\ last.op = "to_nifits" /\ SavedDynamic
    /\ Len(hdulist) >= 3
    /\ RecordNames(hdulist) # {}

InterfaceStatic == {"OI_ARRAY", "OI_WAVELENGTH", "NI_CATM", "NI_FOV", "OI_TARGET"}
InterfaceDynamic == {"NI_KMAT", "NI_MOD", "NI_IOUT", "NI_KIOUT", "NI_KCOV"}

\* C8: the partition is the one of the interface table.  In the table a
\* save reads, every kind of the list is static or dynamic and not both;
\* the static kinds are array geometry, wavelength grid, transfer matrix,
\* field of view and target list, the dynamic ones kernel matrix,
\* modulation series, raw output, kernel output and output covariance; a
\* static-only save selects the former, a dynamic-only save the latter.
C8_PartitionTable ==
    last.op = "to_nifits"
        => /\ Len(STATIC_EXTENSIONS) = Len(NIFITS_EXTENSIONS)
           /\ StaticKinds \cap DynamicKinds = {}
           /\ StaticKinds \cup DynamicKinds = Kinds
           /\ StaticKinds = InterfaceStatic
           /\ DynamicKinds = InterfaceDynamic
           /\ SavedStatic => Range(extension_list) = InterfaceStatic
           /\ SavedDynamic => Range(extension_list) = InterfaceDynamic

\* C9: one slot per kind.  The extension slots of a container the
\* constructor returns are the lower-cased kinds of the list, no more and
\* no fewer.
C9_SlotPerKind ==
    (last.op = "nifits" /\ IsContainer(obj))
        => DOMAIN obj.attrs = {lower(K) : K \in Kinds}

\* C10: the complex codec is invertible.  to_hdu always gives two planes;
\* from_hdu after to_hdu gives back the complex array the run started from,
\* and to_hdu after from_hdu gives back the two-plane array it started from.
C10_CodecInverse ==
    /\ (ctrace # <<>> /\ LastCodecCall = "to_hdu") => Len(chdu.data) = 2
    /\ (corig.side = "obj" /\ Len(ctrace) = 2)
          => /\ ctrace = <<"to_hdu", "from_hdu">>
             /\ cobj.data = corig.data
    /\ (corig.side = "hdu" /\ Len(corig.data) = 2 /\ Len(ctrace) = 2)
          => /\ ctrace = <<"from_hdu", "to_hdu">>
             /\ chdu.data = corig.data

\* C11: the shape check of the complex decode.  from_hdu on an image record
\* whose leading dimension is not 2 ends with the AssertionError of the
\* assert statement (the structural error of the codec) and yields no
\* object; on a record whose leading dimension is 2 it returns an object.
C11_ShapeCheck ==
    (corig.side = "hdu" /\ ctrace # <<>>)
        => /\ Len(corig.data) # 2 => (ctrace[1] = "AssertionError" /\ IsNone(cobj))
           /\ Len(corig.data) = 2 => (ctrace[1] = "from_hdu" /\ ~IsNone(cobj))

C11_Witness ==
    /\ corig.side = "hdu"
    /\ Len(corig.data) = 3
    /\ ctrace = << "AssertionError" >>
    /\ IsNone(cobj)

\* The records of a source whose shape from_hdu refuses, and the source
\* without them.
Offending(hl) ==
    {hl[i].name : i \in {j \in 2..Len(hl) :
        getclass(hl[j].name).base = "NI_EXTENSION_CPX_ARRAY" /\ Len(hl[j].data) # 2}}
Without(hl, names) == SelectSeq(hl, LAMBDA h : h.name \notin names)

\* C12: a shape violation aborts only the decode of the offending kind.  A
\* load of a source with a transfer-matrix record of invalid leading
\* dimension goes on with the remaining kinds: it returns what the load of
\* the source without that record returns, with the same notices for the
\* other kinds.
C12_ShapeViolationLocal ==
    (last.op = "from_nifits" /\ Offending(source) # {})
        => LET r == from_nifits(Without(source, Offending(source))) IN
           /\ raised = r.raised
           /\ obj = r.obj
           /\ \A K \in Kinds \ Offending(source) :
                 NoticeCount(K) = Cardinality({i \in 1..Len(r.notices) : r.notices[i] = K})

\* The position vector a station holds.
StaXYZ(s) == heap[s.staxyz]

\* C13: station equality is structural and total.  A comparison of two
\* stations returns, and returns true iff revision, tel_name, sta_name,
\* diameter, the three coordinates of staxyz, fov and fovtype are equal.
C13_StationEquality ==
    sres.op = "eq"
        => /\ sres.raised = "none"
           /\ sres.value <=>
                 /\ stations[1].revision = stations[2].revision
                 /\ stations[1].tel_name = stations[2].tel_name
                 /\ stations[1].sta_name = stations[2].sta_name
                 /\ stations[1].diameter = stations[2].diameter
                 /\ \A k \in 1..3 : StaXYZ(stations[1])[k] = StaXYZ(stations[2])[k]
                 /\ stations[1].fov = stations[2].fov
                 /\ stations[1].fovtype = stations[2].fovtype

\* C14: station normalization.  A station constructed with revision < 2
\* stores fov and fovtype unset whatever was passed; with revision >= 2 it
\* stores them as passed.
C14_StationNormalization ==
    \A i \in 1..Len(stations) :
        /\ sargs[i].revision < 2
              => stations[i].fov = None /\ stations[i].fovtype = None
        /\ sargs[i].revision >= 2
              => stations[i].fov = sargs[i].fov /\ stations[i].fovtype = sargs[i].fovtype

C14_Witness ==
    /\ Len(stations) = 2
    /\ sargs[1].revision = 1 /\ sargs[1].fov = Fin(1) /\ sargs[1].fovtype = Str("radius")
    /\ stations[1].fov = None /\ stations[1].fovtype = None
    /\ sargs[2].revision = 2 /\ stations[2].fov = Fin(1) /\ stations[2].fovtype = Str("radius")

\* The table a target object holds.
TableOf(t) == heap[t.data_table]
FromScratch(t) == TableOf(t).names = OI_TARGET_names
Column(name) == CHOOSE i \in 1..Len(OI_TARGET_names) : OI_TARGET_names[i] = name

\* The keyword of add_target for a column: the column name in lower case.
lower_column(i) ==
    CASE OI_TARGET_names[i] = "TARGET_ID" -> "target_id"
      [] OI_TARGET_names[i] = "TARGET" -> "target"
      [] OI_TARGET_names[i] = "RAEP0" -> "raep0"
      [] OI_TARGET_names[i] = "DECEP0" -> "decep0"
      [] OI_TARGET_names[i] = "EQUINOX" -> "equinox"
      [] OI_TARGET_names[i] = "RA_ERR" -> "ra_err"
      [] OI_TARGET_names[i] = "DEC_ERR" -> "dec_err"
      [] OI_TARGET_names[i] = "SYSVEL" -> "sysvel"
      [] OI_TARGET_names[i] = "VELTYP" -> "veltyp"
      [] OI_TARGET_names[i] = "VELDEF" -> "veldef"
      [] OI_TARGET_names[i] = "PMRA" -> "pmra"
      [] OI_TARGET_names[i] = "PMDEC" -> "pmdec"
      [] OI_TARGET_names[i] = "PMRA_ERR" -> "pmra_err"
      [] OI_TARGET_names[i] = "PMDEC_ERR" -> "pmdec_err"
      [] OI_TARGET_names[i] = "PARALLAX" -> "parallax"
      [] OI_TARGET_names[i] = "PARA_ERR" -> "para_err"
      [] OI_TARGET_names[i] = "SPECTYP" -> "spectyp"
      [] OI_TARGET_names[i] = "CATEGORY" -> "category"

\* The defaults the documentation of add_target gives, column by column.
DocumentedDefault(i) ==
    IF OI_TARGET_names[i] = "TARGET_ID" THEN 0
    ELSE IF OI_TARGET_names[i] = "TARGET" THEN "MyTarget"
    ELSE IF OI_TARGET_names[i] \in {"VELTYP", "VELDEF", "SPECTYP", "CATEGORY"} THEN ""
    ELSE Fin(0)

\* C15: target list growth.  A table from from_scratch has, after n
\* add_target calls, exactly n rows in call order, each holding the passed
\* values and the defaults for the others; no call is rejected, a repeated
\* target_id included.
C15_TargetListGrowth ==
    /\ sres.op = "from_scratch" => Len(TableOf(targets[sres.who]).rows) = 0
    /\ (sres.op = "add_target" /\ FromScratch(targets[sres.who])) => sres.raised = "none"
    /\ \A t \in 1..Len(targets) :
          FromScratch(targets[t])
              => /\ Len(TableOf(targets[t]).rows) = Len(tlog[t])
                 /\ \A j \in 1..Len(tlog[t]), i \in 1..Len(OI_TARGET_names) :
                       TableOf(targets[t]).rows[j][i] =
                           IF lower_column(i) \in DOMAIN tlog[t][j]
                           THEN tlog[t][j][lower_column(i)] ELSE DocumentedDefault(i)

C15_Witness ==
    \E t \in 1..Len(targets) :
        /\ FromScratch(targets[t])
        /\ sres.op = "add_target" /\ sres.who = t
        /\ Len(TableOf(targets[t]).rows) = 2
        /\ TableOf(targets[t]).rows[1][Column("TARGET_ID")] = 0
        /\ TableOf(targets[t]).rows[2][Column("TARGET_ID")] = 0
        /\ TableOf(targets[t]).rows[2][Column("TARGET")] = "Vega"

\* C19: no default value is shared across instances.  Changing in place the
\* position vector of a station built without staxyz, or the table or the
\* header of an extension object built without them, changes neither what
\* another instance holds nor the value a later default construction
\* receives.
C19_NoSharedDefault ==
    [][/\ (sres'.op = "setcoord" /\ sargs[sres'.who].staxyz = Omitted)
           => /\ \A j \in (1..Len(stations)) \ {sres'.who} :
                    heap'[stations[j].staxyz] = heap[stations[j].staxyz]
              /\ heap'[DefaultStaxyz] = ImportedHeap[DefaultStaxyz]
       /\ sres'.op \in {"add_target", "setcard"}
           => \A j \in (1..Len(targets)) \ {sres'.who} :
                 /\ heap'[targets[j].data_table] = heap[targets[j].data_table]
                 /\ heap'[targets[j].header] = heap[targets[j].header]
      ]_vars

\* The dimensions of the payload of a record.
Dims(hdu) ==
    IF getclass(hdu.name).base = "NI_EXTENSION_CPX_ARRAY"
    THEN << Len(hdu.data), Len(hdu.data[1]) >>
    ELSE << Len(hdu.data) >>
Encoded == xtrace # <<>> /\ xtrace[Len(xtrace)] = "to_hdu"

\* C16: to_hdu resynchronizes the header.  After to_hdu the header of the
\* record and the header the object stores carry the dimensions of the
\* record's payload, which are the current ones of the object's payload,
\* and the free-form card of the header the object stored before.
C16_HeaderResync ==
    [][(xtrace' # xtrace /\ Encoded')
          => /\ HduAt(heap', xhdu').header.shape = Dims(HduAt(heap', xhdu'))
             /\ Dims(HduAt(heap', xhdu'))[Len(Dims(HduAt(heap', xhdu')))]
                    = Len(ObjAt(heap', xobj').data)
             /\ ObjAt(heap', xobj').header = HduAt(heap', xhdu').header
             /\ HduAt(heap', xhdu').header.card = ObjAt(heap, xobj).header.card
      ]_vars

C16_Witness ==
    /\ Encoded
    /\ Done("resize")
    /\ \E cls \in ObjectClasses : getclass(cls).base = "NI_EXTENSION_ARRAY" /\ xhdu.name = cls
    /\ heap[xhdu.header].shape = << NVariants + 1 >>
    /\ heap[xhdu.header].card = "COMMENT"
    /\ heap[xobj.header] = heap[xhdu.header]

\* C18: from_hdu copies the payload.  A change in place of the payload of
\* the record leaves the payload of the object decoded from it unchanged,
\* and a change in place of the payload of the object leaves the record's
\* unchanged, for a table, an array and a complex array.
C18_DecodeCopies ==
    [][/\ xtrace' = Append(xtrace, "poke_record") => heap'[xobj.data] = heap[xobj.data]
       /\ xtrace' = Append(xtrace, "poke_object") => heap'[xhdu.data] = heap[xhdu.data]
      ]_vars

\* A step that is a call of to_nifits.
Saving == last.op # "to_nifits" /\ last'.op = "to_nifits"

\* C17: writing the file is gated by writefile.  A save with writefile
\* false leaves the file as it was; a save with writefile true whose loop
\* ends writes its record list once under the file name if the name is free
\* or overwrite is set, and otherwise ends with the OSError of writeto and
\* leaves the file as it was; the record list of the save is the one of the
\* same save with the other value of writefile.
C17_WriteGated ==
    [][Saving =>
          LET a == last'
              r == to_nifits(obj, a.static_only, a.dynamic_only, a.static_hash,
                             ~a.writefile, a.overwrite, file)
              looped == to_nifits(obj, a.static_only, a.dynamic_only, a.static_hash,
                                  FALSE, a.overwrite, file).raised = "none"
          IN  /\ ~a.writefile => (file' = file /\ a.wrote = 0)
              /\ (a.writefile /\ ~looped) => (file' = file /\ a.wrote = 0)
              /\ (a.writefile /\ looped /\ (file = <<>> \/ a.overwrite))
                    => (file' = hdulist' /\ a.wrote = 1 /\ raised' = "none")
              /\ (a.writefile /\ looped /\ file # <<>> /\ ~a.overwrite)
                    => (file' = file /\ a.wrote = 0 /\ raised' = "OSError")
              /\ hdulist' = r.hdulist
              /\ obj' = r.self
      ]_vars

C17_Witness ==
    /\ last.op = "to_nifits" /\ last.writefile /\ last.overwrite
    /\ last.wrote = 1
    /\ raised = "none"
    /\ Len(hdulist) >= 3
    /\ file = hdulist
    /\ file # OldFile

\* C20: static_hash is not looked at.  Whatever value is passed for it, a
\* save of the same container with the same other arguments gives the same
\* record list, the same flags, the same outcome and the same file.
C20_StaticHashIgnored ==
    [][Saving =>
          \A h \in StaticHashes :
              LET a == last'
                  r == to_nifits(obj, a.static_only, a.dynamic_only, h,
                                 a.writefile, a.overwrite, file)
              IN  /\ hdulist' = r.hdulist
                  /\ Manifest(hdulist') = Manifest(r.hdulist)
                  /\ raised' = r.raised
                  /\ file' = r.file
                  /\ obj' = r.self
      ]_vars

C20_Witness ==
    /\ last.op = "to_nifits" /\ last.static_hash = "hash"
    /\ last.dynamic_only /\ ~last.static_only
    /\ Len(hdulist) >= 3

\* C21: static_only wins over dynamic_only.  A save called with both set is
\* not refused for that: it gives the record list, the flags, the outcome
\* and the file of the same save with static_only alone, and it writes and
\* flags no dynamic kind.
C21_StaticWins ==
    [][(Saving /\ last'.static_only /\ last'.dynamic_only)
          => LET a == last'
                 r == to_nifits(obj, TRUE, FALSE, a.static_hash, a.writefile,
                                a.overwrite, file)
             IN  /\ hdulist' = r.hdulist
                 /\ Manifest(hdulist') = Manifest(r.hdulist)
                 /\ extension_list' = r.extension_list
                 /\ raised' = r.raised
                 /\ file' = r.file
                 /\ obj' = r.self
                 /\ (RecordNames(hdulist') \cup DOMAIN Manifest(hdulist'))
                        \cap DynamicKinds = {}
      ]_vars

C21_Witness ==
    /\ last.op = "to_nifits" /\ last.static_only /\ last.dynamic_only
    /\ raised = "none"
    /\ RecordNames(hdulist) = StaticKinds
    /\ \E K \in DynamicKinds : IsPopulated(obj, K)

\* The place of a kind in the fixed list, and the kinds of a list that a
\* record list flags "Included", in the order of the list.
Place(K) == CHOOSE i \in 1..Len(NIFITS_EXTENSIONS) : NIFITS_EXTENSIONS[i] = K
Included(hl, list) == SelectSeq(list, LAMBDA K : Flag(hl, K) = "Included")
NamesOf(hl) == [i \in 1..(Len(hl) - 1) |-> hl[i + 1].name]

\* C22: layout and order of the record list of a save.  The first record is
\* the primary one and it alone carries manifest flags; the extension
\* records follow in the order of the fixed list, each of a selected kind
\* and no name twice; in a save that returns they are the selected kinds
\* flagged "Included", in the order of the selection.
C22_RecordLayout ==
    last.op = "to_nifits"
        => /\ Len(hdulist) >= 1
           /\ hdulist[1].name = "PRIMARY"
           /\ \A i \in 2..Len(hdulist) :
                 /\ hdulist[i].name \in Range(extension_list)
                 /\ hdulist[i].header.flags = NoFlags
                 /\ \A j \in 2..(i - 1) : Place(hdulist[j].name) < Place(hdulist[i].name)
           /\ raised = "none" => NamesOf(hdulist) = Included(hdulist, extension_list)

C22_Witness ==
    /\ last.op = "to_nifits" /\ SavedStatic
    /\ raised = "none"
    /\ NamesOf(hdulist) = << "OI_ARRAY", "OI_WAVELENGTH", "NI_CATM", "NI_FOV" >>
    /\ DOMAIN Manifest(hdulist) = StaticKinds

\* C23: the frame of to_nifits.  A save leaves the root header of the
\* container, its slots, which of them are populated and the payload of each
\* as they were; a slot it changes is one of a selected kind that it encoded,
\* and what changes is the stored header, which becomes the header of the
\* record of that kind.
C23_SaveFrame ==
    [][Saving =>
          /\ obj'.header = obj.header
          /\ DOMAIN obj'.attrs = DOMAIN obj.attrs
          /\ Populated(obj') = Populated(obj)
          /\ \A a \in Populated(obj) :
                /\ obj'.attrs[a].cls = obj.attrs[a].cls
                /\ obj'.attrs[a].data = obj.attrs[a].data
          /\ \A a \in DOMAIN obj.attrs :
                \/ obj'.attrs[a] = obj.attrs[a]
                \/ /\ ClassOfAttr(a) \in Range(extension_list')
                   /\ \E i \in 2..Len(hdulist') :
                         /\ hdulist'[i].name = ClassOfAttr(a)
                         /\ obj'.attrs[a].header = hdulist'[i].header
          /\ \A a \in DOMAIN obj.attrs :
                ClassOfAttr(a) \notin Range(extension_list') => obj'.attrs[a] = obj.attrs[a]
      ]_vars

C23_Witness ==
    /\ last.op = "to_nifits" /\ SavedStatic
    /\ source = <<>>
    /\ raised = "none"
    /\ \E a \in Populated(obj) :
          /\ ClassOfAttr(a) \in Range(extension_list)
          /\ obj.attrs[a].header.shape # <<>>
    /\ \E b \in Populated(obj) :
          /\ ClassOfAttr(b) \notin Range(extension_list)
          /\ obj.attrs[b].header.shape = <<>>

====
